---- MODULE Spec2Model ----
(***************************************************************************)
(* The betting module of wololobot (src/src/modules/bets.js): the bet      *)
(* manager over the store's three tables, the ledger it drives, and the    *)
(* chat commands of the front-end, one step per awaited store or ledger    *)
(* round-trip.                                                             *)
(***************************************************************************)
EXTENDS Integers, Sequences, FiniteSets, Bags

\* ------------------------------------------------------------------ bounds

\* Bets ever inserted into the bets table, in Spec, SpecPayout and SpecAsync.
MaxBets == 1
\* Bets ever inserted into the bets table, in SpecLife.
LifeBets == 2
\* Batches the ledger's transaction log may hold before !bet end is refused.
MaxTx == 4
\* Handler invocations that may be in flight at once in SpecAsync.
NProcs == 2

\* The longest message '!bet open' is given in SpecParse.
MaxStr == 9

\* ------------------------------------------------------- JavaScript values

\* SQL NULL / JS null, as returned by SUM() over no rows.
Null == -1000
\* JS NaN, as produced by 0 / 0.
NaN == -2000
\* JS undefined: what .first() resolves to when no row matches.
Undefined == 0

\* String.prototype.toLowerCase on the names the model uses.
toLowerCase(s) ==
  CASE s = "Alice" -> "alice"
    [] s = "A" -> "a"
    [] s = "B" -> "b"
    [] OTHER -> s

\* ------------------------------------------- IEEE-754 double arithmetic
\* TLC's integers are 32 bits wide, so the 53-bit significand of a double is
\* kept in limbs of LimbBits bits, least significant first.  The operands the
\* model feeds in are integers below 2^13.

\* Significand bits of a double.
Precision == 53

RECURSIVE Pow2(_)
Pow2(n) == IF n = 0 THEN 1 ELSE 2 * Pow2(n - 1)

LimbBits == 14
LimbBase == Pow2(LimbBits)

RECURSIVE BitLen(_)
BitLen(n) == IF n = 0 THEN 0 ELSE 1 + BitLen(n \div 2)

\* Carry propagation over five limbs; the top limb keeps the excess.
Norm5(v) ==
  LET v2 == v[2] + v[1] \div LimbBase
      v3 == v[3] + v2 \div LimbBase
      v4 == v[4] + v3 \div LimbBase
      v5 == v[5] + v4 \div LimbBase
  IN  <<v[1] % LimbBase, v2 % LimbBase, v3 % LimbBase, v4 % LimbBase, v5>>

RECURSIVE NormShift(_, _, _)
NormShift(a, w, s) == IF a * Pow2(s) >= w THEN s ELSE NormShift(a, w, s + 1)

\* a / w in doubles, for integers 0 < a <= w: the quotient's first
\* Precision bits by long division, rounded to nearest, ties to even.
\* The result is the significand m (as limbs) and the count E of its bits
\* that lie after the binary point: the value is m / 2^E.
FDiv(a, w) ==
  LET s   == NormShift(a, w, 0)
      top == Precision - 1 - 3 * LimbBits
      r0  == a * Pow2(s) - w
      c1  == (r0 * Pow2(top)) \div w
      r1  == (r0 * Pow2(top)) % w
      c2  == (r1 * LimbBase) \div w
      r2  == (r1 * LimbBase) % w
      c3  == (r2 * LimbBase) \div w
      r3  == (r2 * LimbBase) % w
      c4  == (r3 * LimbBase) \div w
      r4  == (r3 * LimbBase) % w
      up  == 2 * r4 > w \/ (2 * r4 = w /\ c4 % 2 = 1)
      m   == Norm5(<<c4 + (IF up THEN 1 ELSE 0), c3, c2, c1 + Pow2(top), 0>>)
  IN  [m |-> m, E |-> Precision - 1 + s]

\* x * t in doubles, for a double x = FDiv(a, w) and an integer 0 < t < 2^13:
\* the exact product, rounded to Precision bits, ties to even.
FMul(x, t) ==
  LET p  == Norm5(<<x.m[1] * t, x.m[2] * t, x.m[3] * t, x.m[4] * t, 0>>)
      k  == BitLen(p[5] * LimbBase + p[4]) + 3 * LimbBits - Precision
      d  == p[1] % Pow2(k)
      up == k > 0 /\ (2 * d > Pow2(k)
                      \/ (2 * d = Pow2(k) /\ (p[1] \div Pow2(k)) % 2 = 1))
  IN  [m |-> Norm5(<<p[1] - d + (IF up THEN Pow2(k) ELSE 0),
                     p[2], p[3], p[4], p[5]>>),
       E |-> x.E]

\* Math.ceil of a positive double x = FMul(..).
Ceil(x) ==
  LET j  == x.E \div LimbBits
      f  == x.E % LimbBits
      hi == IF j = 3 THEN x.m[5] * LimbBase + x.m[4]
            ELSE IF j = 4 THEN x.m[5] ELSE 0
      lo == \E i \in 1..5 : i <= j /\ x.m[i] # 0
  IN  hi \div Pow2(f) + (IF hi % Pow2(f) # 0 \/ lo THEN 1 ELSE 0)

\* Math.ceil(amount / winningBets * total) of line 182, for an entry among
\* the winners (so amount <= winningBets); total may be the null of an empty
\* SUM(), which arithmetic reads as 0.
Payout(amount, winningBets, total) ==
  IF winningBets = 0 THEN NaN
  ELSE IF amount = 0 \/ total = Null \/ total = 0 THEN 0
  ELSE Ceil(FMul(FDiv(amount, winningBets), total))

\* ------------------------------------------------------------------- parse
\* A message is the sequence of its characters; lastIndex counts from 0 as
\* in the source, positions in the sequence from 1.

\* [a-z]
Letters ==
  {"a", "b", "c", "d", "e", "f", "g", "h", "i", "j", "k", "l", "m", "n", "o",
   "p", "q", "r", "s", "t", "u", "v", "w", "x", "y", "z"}

\* \s, of the characters a chat line holds.
Whitespace == {" "}

\* The characters joined into one string.
RECURSIVE Join(_)
Join(chars) == IF chars = <<>> THEN "" ELSE Head(chars) \o Join(Tail(chars))

\* The position after the run of letters that starts at position i.
RunEnd(str, i) ==
  CHOOSE j \in i..(Len(str) + 1) :
    /\ j = Len(str) + 1 \/ str[j] \notin Letters
    /\ \A k \in i..(j - 1) : str[k] \in Letters

\* ([a-z]+)\) matches at position i.
KeyAt(str, i) ==
  /\ i <= Len(str)
  /\ str[i] \in Letters
  /\ RunEnd(str, i) <= Len(str)
  /\ str[RunEnd(str, i)] = ")"

\* String.prototype.trim
trim(chars) ==
  LET inked == {i \in 1..Len(chars) : chars[i] \notin Whitespace}
  IN  IF inked = {} THEN <<>>
      ELSE SubSeq(chars, CHOOSE i \in inked : \A j \in inked : i <= j,
                         CHOOSE i \in inked : \A j \in inked : j <= i)

\* rx.exec(str) with rx.lastIndex = lastIndex: whether it returns null, and
\* if not the key (match[1]), the text after it (match[2]) and the lastIndex
\* exec leaves.
\* The key is the whole run of letters from the leftmost position that starts
\* one; (.*?) stops at the first position where \s[a-z]+\) matches, or at the
\* end of the string.
exec(str, lastIndex) ==
  LET starts == {i \in (lastIndex + 1)..Len(str) : KeyAt(str, i)}
      i      == CHOOSE x \in starts : \A y \in starts : x <= y
      j      == RunEnd(str, i)
      stops  == {k \in (j + 1)..(Len(str) + 1) :
                   \/ k = Len(str) + 1
                   \/ str[k] \in Whitespace /\ KeyAt(str, k + 1)}
      k      == CHOOSE x \in stops : \A y \in stops : x <= y
  IN  IF starts = {}
        THEN [null |-> TRUE, key |-> <<>>, text |-> <<>>, lastIndex |-> 0]
      ELSE [null |-> FALSE,
            key  |-> SubSeq(str, i, j - 1),
            text |-> SubSeq(str, j + 1, k - 1),
            lastIndex |-> IF k = Len(str) + 1 THEN Len(str)
                          ELSE RunEnd(str, k + 1)]

\* options[name] = description: a new key goes last, a known key keeps its
\* place.
Put(options, name, description) ==
  IF \E n \in 1..Len(options) : options[n].name = name
    THEN [n \in 1..Len(options) |->
            IF options[n].name = name
              THEN [name |-> name, description |-> description]
              ELSE options[n]]
    ELSE Append(options, [name |-> name, description |-> description])

\* The while loop of parse from rx.lastIndex = lastIndex. exec() depends on
\* lastIndex alone and reads a negative lastIndex as 0, so the loop never ends
\* once a lastIndex comes back: loops says so.
RECURSIVE parseFrom(_, _, _, _)
parseFrom(str, lastIndex, options, seen) ==
  LET match == exec(str, lastIndex)
      next  == match.lastIndex - (Len(match.key) + 2)
      index == IF next < 0 THEN 0 ELSE next
      put   == Put(options, toLowerCase(Join(match.key)),
                   Join(trim(match.text)))
  IN  IF match.null THEN [options |-> options, loops |-> FALSE]
      ELSE IF index \in seen \cup {lastIndex}
        THEN [options |-> put, loops |-> TRUE]
      ELSE parseFrom(str, index, put, seen \cup {lastIndex})

\* parse(str)
parse(str) == parseFrom(str, 0, <<>>, {})

\* ------------------------------------------------------------------ inputs
\* What the commands are given, per specification: the users (message.user),
\* the option arguments of '!bet <option>' and '!bet end <option>', the
\* amounts, the option strings of '!bet open' (message.trailing), and the
\* bets the store may come to hold.

\* "a) x b) y", "a) x" and a message without a key.
OpenAB == <<"a", ")", " ", "x", " ", "b", ")", " ", "y">>
OpenA == <<"a", ")", " ", "x">>
OpenNone == <<"x">>

\* The characters of the messages of SpecParse, and every message of them.
Chars == {"a", ")", " "}
Messages == UNION {[1..n -> Chars] : n \in 0..MaxStr}

\* Two of the users differ only in case.
Users == {"Alice", "alice", "bob"}
LowerUsers == {toLowerCase(u) : u \in Users}

\* Spec: every check of enter() can fail, every command has its cases.
DetailIn ==
  [users |-> Users, options |-> {"a", "B", "z"}, florins |-> {-5, 0, 7},
   strs |-> {OpenAB}, maxBets |-> MaxBets]

\* SpecPayout: stakes of 7 and 18 on one option make 7 / 25 * 25 in doubles.
PayoutIn ==
  [users |-> {"alice", "bob"}, options |-> {"a", "b"}, florins |-> {0, 7, 18},
   strs |-> {OpenAB}, maxBets |-> MaxBets]

\* SpecLife: several bets, one user, one stake; parse() may find no key.
LifeIn ==
  [users |-> {"bob"}, options |-> {"a", "z"}, florins |-> {7},
   strs |-> {OpenNone, OpenA}, maxBets |-> LifeBets]

\* SpecAsync: handlers in flight together, one user, one stake.
AsyncIn ==
  [users |-> {"bob"}, options |-> {"a", "z"}, florins |-> {7},
   strs |-> {OpenA}, maxBets |-> MaxBets]

\* SpecParse: '!bet open' with every message of up to MaxStr characters.
ParseIn ==
  [users |-> {"bob"}, options |-> {"a", "z"}, florins |-> {7},
   strs |-> Messages, maxBets |-> MaxBets]

\* ------------------------------------------------------------------- state

VARIABLES
  bets,          \* table bets: status by id (the row's position)
  betOptions,    \* table betOptions: rows [betId, name], id = position
  betEntries,    \* table betEntries: the bag of rows [betId, optionId, user, amount]
  botBet,        \* bot.bet: the betId the current manager is bound to, 0 = none
  reservations,  \* ledger: amount reserved under tag 'bet', by user
  transactions,  \* ledger: the batches applied by florins.transactions, each
                 \* with the bet whose end() applied it and which of the two
                 \* it is
  procs          \* the command handlers in flight, by slot

vars == <<bets, betOptions, betEntries, botBet, reservations, transactions,
          procs>>

Procs == 1..NProcs

IdleProc ==
  [pc |-> "idle", cmd |-> "", user |-> "", option |-> "", florins |-> 0, betId |-> 0,
   optId |-> 0, str |-> <<>>, options |-> <<>>, pool |-> 0, allEntries |-> EmptyBag,
   winners |-> EmptyBag, total |-> 0, value |-> 0, result |-> "none"]

Init ==
  /\ bets = <<>>
  /\ betOptions = <<>>
  /\ betEntries = EmptyBag
  /\ botBet = 0
  /\ reservations = [u \in LowerUsers |-> 0]
  /\ transactions = <<>>
  /\ procs = [p \in Procs |-> IdleProc]

\* ----------------------------------------------------------- store queries
\* A table without a key is the bag of its rows: the queries below say
\* nothing of the order rows come back in, and nothing depends on it.

\* The rows of a bag that satisfy Test.
Where(rows, Test(_)) ==
  [e \in {x \in DOMAIN rows : Test(x)} |-> rows[e]]

\* const sum = (a, b) => a + b over the amounts of the rows, from 0.
RECURSIVE sum(_)
sum(rows) ==
  IF DOMAIN rows = {} THEN 0
  ELSE LET e == CHOOSE x \in DOMAIN rows : TRUE
       IN  rows[e] * e.amount + sum([x \in DOMAIN rows \ {e} |-> rows[x]])

\* SUM(amount) over the rows: NULL over no rows.
SqlSum(rows) == IF DOMAIN rows = {} THEN Null ELSE sum(rows)

\* db('bets').select('status').where('id', '=', betId).first()
getStatus(betId) == bets[betId]

\* The lookup without the condition on the name: the bet's first option.
getBetOptionAnyName(betId, name) ==
  LET ids == {i \in 1..Len(betOptions) : betOptions[i].betId = betId}
  IN  IF ids = {} THEN Undefined
      ELSE CHOOSE i \in ids : \A j \in ids : i <= j

\* db('betOptions').where('betId', betId).where('name', lower(name)).first():
\* the id of the first matching row, or Undefined.
getBetOption(betId, name) ==
  LET ids == {i \in 1..Len(betOptions) :
                /\ betOptions[i].betId = betId
                /\ betOptions[i].name = toLowerCase(name)}
  IN  IF ids = {} THEN Undefined
      ELSE CHOOSE i \in ids : \A j \in ids : i <= j

valid(betId, option) == getBetOption(betId, option) # Undefined

EntriesOf(betId) == Where(betEntries, LAMBDA e : e.betId = betId)

EntriesOfUser(betId, user) ==
  Where(betEntries, LAMBDA e : e.betId = betId /\ e.user = toLowerCase(user))

\* The joined row getBetEntries selects for an entry.
Joined(e) ==
  [user |-> e.user, amount |-> e.amount, optionId |-> e.optionId,
   option |-> IF e.optionId \in 1..Len(betOptions)
                THEN betOptions[e.optionId].name ELSE "null"]

\* betEntries of the bet, left-joined with betOptions for the option's name.
getBetEntries(betId) == BagOfAll(Joined, EntriesOf(betId))

pool(betId) == SqlSum(EntriesOf(betId))

WinnersOf(betId, optId) ==
  Where(betEntries, LAMBDA e : e.betId = betId /\ e.optionId = optId)

\* The delete without lower(): only rows spelled exactly as the caller's name.
DeleteEntriesExactCase(betId, user) ==
  Where(betEntries, LAMBDA e : ~(e.betId = betId /\ e.user = user))

\* .where(betId).where(user).delete()
DeleteEntries(betId, user) ==
  Where(betEntries, LAMBDA e : ~(e.betId = betId /\ e.user = toLowerCase(user)))

\* optionValue: option.id throws a TypeError when no option matches.
optionValue(betId, optionName) ==
  LET option == getBetOption(betId, optionName)
      total  == SqlSum(WinnersOf(betId, option))
  IN  IF option = Undefined THEN [threw |-> TRUE, value |-> 0]
      ELSE [threw |-> FALSE, value |-> IF total = Null THEN 0 ELSE total]

\* entryValue: value.amount throws a TypeError when the user has no row.
entryValue(betId, user) ==
  LET rows == EntriesOfUser(betId, user)
  IN  IF DOMAIN rows = {} THEN [threw |-> TRUE, value |-> 0]
      ELSE [threw |-> FALSE,
            value |-> (CHOOSE e \in DOMAIN rows : TRUE).amount]

\* ------------------------------------------------------------------ ledger

\* unreserve(user, tag): drops the user's reservation, if any.
unreserve(user) == [reservations EXCEPT ![toLowerCase(user)] = 0]

\* reserve(user, tag, amount)
reserve(user, amount) == [reservations EXCEPT ![toLowerCase(user)] = amount]

\* clearReservations(tag)
clearReservations == [u \in LowerUsers |-> 0]

\* ---------------------------------------------------------------- handlers
\* A handler runs from one awaited round-trip to the next: each step below is
\* one store or ledger call taking effect, with the synchronous code that
\* follows it up to the next call.  A handler's first step also holds the
\* synchronous code before its first call.  A read of betOptions is taken
\* together with the read before it: the rows of a bet never change once its
\* manager exists.

\* A handler's state as it starts on a command.
Begin(cmd, user, option, florins) ==
  [IdleProc EXCEPT !.cmd = cmd, !.user = user, !.option = option,
                   !.florins = florins, !.betId = botBet]

\* The handler in state proc returns or throws: its promise settles.
Settle(p, proc, result) ==
  procs' = [procs EXCEPT ![p] = [proc EXCEPT !.pc = "done", !.result = result]]

Finish(p, result) == Settle(p, procs[p], result)

Goto(p, pc) == procs' = [procs EXCEPT ![p].pc = pc]

At(p, pc) == procs[p].pc = pc

\* A handler starts in the lowest free slot; when commands are processed one
\* at a time, only once every other handler has settled.
CanStart(p, serial) ==
  /\ procs[p].pc = "idle"
  /\ \A q \in Procs : q < p => procs[q].pc # "idle"
  /\ serial => \A q \in Procs : procs[q].pc = "idle"

\* The settled handler leaves its slot.
Return(p) ==
  /\ At(p, "done")
  /\ procs' = [procs EXCEPT ![p] = IdleProc]
  /\ UNCHANGED <<bets, betOptions, betEntries, botBet, reservations,
                 transactions>>

\* '!bet open' while a bet is attached: 'Another bet is already open.'
BetOpenRefused(p) ==
  /\ botBet # 0
  /\ Settle(p, Begin("open", "", "", 0), "Error")
  /\ UNCHANGED <<bets, betOptions, betEntries, botBet, reservations,
                 transactions>>

\* '!bet open' with no bet attached: parse(message.trailing), which may
\* never return, and createBet's first half,
\* db('bets').insert({status: 'open'}). The command is taken up while the
\* store holds fewer than maxBets bets.
BetOpen(p, str, maxBets) ==
  /\ botBet = 0
  /\ Len(bets) < maxBets
  /\ IF parse(str).loops
       THEN /\ procs' = [procs EXCEPT ![p] =
                 [Begin("open", "", "", 0) EXCEPT !.pc = "parse_loop",
                                                  !.str = str]]
            /\ UNCHANGED bets
       ELSE /\ bets' = Append(bets, "open")
            /\ procs' = [procs EXCEPT ![p] =
                 [Begin("open", "", "", 0) EXCEPT !.pc = "open_options",
                    !.betId = Len(bets) + 1, !.str = str,
                    !.options = parse(str).options]]
  /\ UNCHANGED <<betOptions, betEntries, botBet, reservations, transactions>>

\* createBet's second half: the option rows, one per key (of the columns
\* only betId and name are ever read back, and are kept), then
\* bot.bet = betManager(betId). An insert of no rows is the query
\* builder's to resolve or reject: both happen.
OpenOptions(p) ==
  /\ At(p, "open_options")
  /\ \E resolves \in (IF procs[p].options = <<>> THEN BOOLEAN ELSE {TRUE}) :
       IF resolves
         THEN /\ betOptions' = betOptions \o
                   [i \in 1..Len(procs[p].options) |->
                      [betId |-> procs[p].betId,
                       name |-> procs[p].options[i].name]]
              /\ botBet' = procs[p].betId
              /\ Finish(p, "ok")
         ELSE /\ Finish(p, "Error")
              /\ UNCHANGED <<betOptions, botBet>>
  /\ UNCHANGED <<bets, betEntries, reservations, transactions>>

\* The handler's state as enter(user, optionName, florins) is called.
Entering(user, option, florins) ==
  [Begin("enter", user, option, florins) EXCEPT !.pc = "enter_status"]

\* The '!bet <option> <florins>' command up to its call of enter().
BetCmd(p, user, option, florins) ==
  /\ IF botBet = 0 \/ ~valid(botBet, option) \/ florins < 0
       THEN Settle(p, Begin("bet", "", "", 0), "Error")
       ELSE procs' = [procs EXCEPT ![p] = Entering(user, option, florins)]
  /\ UNCHANGED <<bets, betOptions, betEntries, botBet, reservations,
                 transactions>>

\* enter() called on the current manager by a caller other than the command.
CallEnter(p, user, option, florins) ==
  /\ botBet # 0
  /\ procs' = [procs EXCEPT ![p] = Entering(user, option, florins)]
  /\ UNCHANGED <<bets, betOptions, betEntries, botBet, reservations,
                 transactions>>

\* The checks of enter() without the one on the sign of the amount.
EnterAllowedAnyAmount(betId, optionName, florins) ==
  /\ getStatus(betId) = "open"
  /\ getBetOption(betId, optionName) # Undefined

\* Whether enter() gets past its three checks.
EnterAllowed(betId, optionName, florins) ==
  /\ getStatus(betId) = "open"
  /\ getBetOption(betId, optionName) # Undefined
  /\ ~(florins < 0)

\* enter(): getStatus, getBetOption and the checks on them.
EnterStatus(p) ==
  /\ At(p, "enter_status")
  /\ IF EnterAllowed(procs[p].betId, procs[p].option, procs[p].florins)
       THEN procs' = [procs EXCEPT ![p].pc = "enter_unreserve",
              ![p].optId = getBetOption(procs[p].betId, procs[p].option)]
       ELSE Finish(p, "Error")
  /\ UNCHANGED <<bets, betOptions, betEntries, botBet, reservations,
                 transactions>>

EnterUnreserve(p) ==
  /\ At(p, "enter_unreserve")
  /\ reservations' = unreserve(procs[p].user)
  /\ Goto(p, "enter_reserve")
  /\ UNCHANGED <<bets, betOptions, betEntries, botBet, transactions>>

EnterReserve(p) ==
  /\ At(p, "enter_reserve")
  /\ reservations' = reserve(procs[p].user, procs[p].florins)
  /\ Goto(p, "enter_delete")
  /\ UNCHANGED <<bets, betOptions, betEntries, botBet, transactions>>

EnterDelete(p) ==
  /\ At(p, "enter_delete")
  /\ betEntries' = DeleteEntries(procs[p].betId, procs[p].user)
  /\ Goto(p, "enter_insert")
  /\ UNCHANGED <<bets, betOptions, botBet, reservations, transactions>>

\* The row enter() inserts.
NewEntry(betId, optId, user, florins) ==
  [betId |-> betId, optionId |-> optId, user |-> toLowerCase(user),
   amount |-> florins]

\* enter(): the insert, and the new row read back and returned.
EnterInsert(p) ==
  /\ At(p, "enter_insert")
  /\ betEntries' = betEntries (+) SetToBag({NewEntry(procs[p].betId,
                      procs[p].optId, procs[p].user, procs[p].florins)})
  /\ Finish(p, "ok")
  /\ UNCHANGED <<bets, betOptions, botBet, reservations, transactions>>

\* The '!bet clear' command and clear()'s status check.
BetClear(p, user) ==
  /\ IF botBet = 0 THEN Settle(p, Begin("clear", "", "", 0), "ok")
     ELSE IF getStatus(botBet) # "open"
       THEN Settle(p, Begin("clear", "", "", 0), "Error")
     ELSE procs' = [procs EXCEPT ![p] =
            [Begin("clear", user, "", 0) EXCEPT !.pc = "clear_delete"]]
  /\ UNCHANGED <<bets, betOptions, betEntries, botBet, reservations,
                 transactions>>

ClearDelete(p) ==
  /\ At(p, "clear_delete")
  /\ betEntries' = DeleteEntries(procs[p].betId, procs[p].user)
  /\ Finish(p, "ok")
  /\ UNCHANGED <<bets, betOptions, botBet, reservations, transactions>>

\* The '!bet close' command: closed() is read, then bot.bet.close() starts
\* (its pool() is read for the debug line only).
BetClose(p) ==
  /\ IF botBet = 0 \/ getStatus(botBet) = "closed"
       THEN Settle(p, Begin("close", "", "", 0), "Error")
       ELSE procs' = [procs EXCEPT ![p] =
              [Begin("close", "", "", 0) EXCEPT !.pc = "close_update"]]
  /\ UNCHANGED <<bets, betOptions, betEntries, botBet, reservations,
                 transactions>>

\* close(): the update; then the command reads bot.bet.pool() for its
\* message, a TypeError when bot.bet has been set to null meanwhile.
CloseUpdate(p) ==
  /\ At(p, "close_update")
  /\ bets' = [bets EXCEPT ![procs[p].betId] = "closed"]
  /\ Finish(p, IF botBet = 0 THEN "TypeError" ELSE "ok")
  /\ UNCHANGED <<betOptions, betEntries, botBet, reservations, transactions>>

\* The '!bet end <option>' command up to end()'s status update: bot.bet is
\* set to null, pool() is read for the message, bet.end(option) looks the
\* option up and throws when there is none.
BetEnd(p, option) ==
  /\ IF botBet = 0
       THEN Settle(p, Begin("end", "", "", 0), "Error") /\ UNCHANGED botBet
       ELSE /\ Len(transactions) + 2 <= MaxTx
            /\ botBet' = 0
            /\ IF getBetOption(botBet, option) = Undefined
                 THEN Settle(p, Begin("end", "", option, 0), "Error")
                 ELSE procs' = [procs EXCEPT ![p] =
                        [Begin("end", "", option, 0) EXCEPT
                           !.pc = "end_update",
                           !.optId = getBetOption(botBet, option),
                           !.pool = pool(botBet)]]
  /\ UNCHANGED <<bets, betOptions, betEntries, reservations, transactions>>

\* end() going on to read the entries without its status update.
EndWithoutUpdate(p) ==
  /\ At(p, "end_update")
  /\ Goto(p, "end_entries")
  /\ UNCHANGED <<bets, betOptions, betEntries, botBet, reservations,
                 transactions>>

EndUpdate(p) ==
  /\ At(p, "end_update")
  /\ bets' = [bets EXCEPT ![procs[p].betId] = "ended"]
  /\ Goto(p, "end_entries")
  /\ UNCHANGED <<betOptions, betEntries, botBet, reservations, transactions>>

EndEntries(p) ==
  /\ At(p, "end_entries")
  /\ procs' = [procs EXCEPT ![p].pc = "end_winners",
                            ![p].allEntries = getBetEntries(procs[p].betId)]
  /\ UNCHANGED <<bets, betOptions, betEntries, botBet, reservations,
                 transactions>>

EndWinners(p) ==
  /\ At(p, "end_winners")
  /\ procs' = [procs EXCEPT ![p].pc = "end_total",
                 ![p].winners = WinnersOf(procs[p].betId, procs[p].optId)]
  /\ UNCHANGED <<bets, betOptions, betEntries, botBet, reservations,
                 transactions>>

EndTotal(p) ==
  /\ At(p, "end_total")
  /\ procs' = [procs EXCEPT ![p].pc = "end_debit",
                            ![p].total = pool(procs[p].betId)]
  /\ UNCHANGED <<bets, betOptions, betEntries, botBet, reservations,
                 transactions>>

\* The debit with the sign of the amount left as the entry has it.
DebitOfUnsigned(entry) ==
  [username |-> entry.user, amount |-> entry.amount,
   description |-> <<"bet on option", entry.option>>]

\* The transaction that debits an entry its amount.
DebitOf(entry) ==
  [username |-> entry.user, amount |-> 0 - entry.amount,
   description |-> <<"bet on option", entry.option>>]

\* The batch of line 186: one debit per entry read.
Debits(allEntries) == BagOfAll(DebitOf, allEntries)

\* The transaction that credits a winner its payout.
CreditOf(entry, winningBets, total, optionName) ==
  [username |-> entry.user,
   amount |-> Payout(entry.amount, winningBets, total),
   description |-> <<"bet payout from option", optionName>>]

\* The batch of line 194: one credit per winner read.
Credits(winners, total, optionName) ==
  BagOfAll(LAMBDA e : CreditOf(e, sum(winners), total, optionName), winners)

EndDebit(p) ==
  /\ At(p, "end_debit")
  /\ transactions' = Append(transactions,
       [betId |-> procs[p].betId, kind |-> "debit",
        rows |-> Debits(procs[p].allEntries)])
  /\ Goto(p, "end_credit")
  /\ UNCHANGED <<bets, betOptions, betEntries, botBet, reservations>>

EndCredit(p) ==
  /\ At(p, "end_credit")
  /\ transactions' = Append(transactions,
       [betId |-> procs[p].betId, kind |-> "credit",
        rows |-> Credits(procs[p].winners, procs[p].total,
                         betOptions[procs[p].optId].name)])
  /\ Goto(p, "end_clear")
  /\ UNCHANGED <<bets, betOptions, betEntries, botBet, reservations>>

\* end() returning without the call of clearReservations.
EndWithoutClear(p) ==
  /\ At(p, "end_clear")
  /\ Finish(p, "ok")
  /\ UNCHANGED <<bets, betOptions, betEntries, botBet, reservations,
                 transactions>>

EndClear(p) ==
  /\ At(p, "end_clear")
  /\ reservations' = clearReservations
  /\ Finish(p, "ok")
  /\ UNCHANGED <<bets, betOptions, betEntries, botBet, transactions>>

\* optionValue(optionName) called on the current manager: both reads, and
\* the number returned or the TypeError thrown.
CallOptionValue(p, optionName) ==
  /\ botBet # 0
  /\ LET r == optionValue(botBet, optionName)
     IN  Settle(p, [Begin("optionValue", "", optionName, 0) EXCEPT
                      !.value = r.value],
                IF r.threw THEN "TypeError" ELSE "ok")
  /\ UNCHANGED <<bets, betOptions, betEntries, botBet, reservations,
                 transactions>>

\* entryValue(user) called on the current manager.
CallEntryValue(p, user) ==
  /\ botBet # 0
  /\ LET r == entryValue(botBet, user)
     IN  Settle(p, [Begin("entryValue", user, "", 0) EXCEPT
                      !.value = r.value],
                IF r.threw THEN "TypeError" ELSE "ok")
  /\ UNCHANGED <<bets, betOptions, betEntries, botBet, reservations,
                 transactions>>

\* The '!bet stop' command: bot.bet = null, and nothing else.
BetStop(p) ==
  /\ botBet' = 0
  /\ Settle(p, Begin("stop", "", "", 0), "ok")
  /\ UNCHANGED <<bets, betOptions, betEntries, reservations, transactions>>

\* A ledger call fails: the handler throws where it stands.
LedgerFail(p) ==
  /\ procs[p].pc \in {"enter_unreserve", "enter_reserve", "end_debit",
                      "end_credit", "end_clear"}
  /\ Finish(p, "Error")
  /\ UNCHANGED <<bets, betOptions, betEntries, botBet, reservations,
                 transactions>>

\* The bets restoreBet's query matches: status != 'ended'.
NotEnded == {b \in 1..Len(bets) : bets[b] # "ended"}

\* restoreBet: bot.bet is bound to .first() of the matching rows, which the
\* query does not order; bot.bet stays unset when there is none.
restoreBet(b) == IF NotEnded = {} THEN b = 0 ELSE b \in NotEnded

\* The process stops, with whatever handlers were in flight, and starts again.
Restart ==
  /\ \E b \in 0..Len(bets) : restoreBet(b) /\ botBet' = b
  /\ procs' = [p \in Procs |-> IdleProc]
  /\ UNCHANGED <<bets, betOptions, betEntries, reservations, transactions>>

\* -------------------------------------------------------------- behaviours

Start(p, serial, in) ==
  /\ CanStart(p, serial)
  /\ \/ \E str \in in.strs : BetOpen(p, str, in.maxBets)
     \/ BetOpenRefused(p)
     \/ \E u \in in.users, o \in in.options, f \in in.florins :
          BetCmd(p, u, o, f)
     \/ \E u \in in.users, o \in in.options, f \in in.florins :
          CallEnter(p, u, o, f)
     \/ \E u \in in.users : BetClear(p, u)
     \/ BetClose(p)
     \/ \E o \in in.options : BetEnd(p, o)
     \/ BetStop(p)
     \/ \E o \in in.options : CallOptionValue(p, o)
     \/ \E u \in in.users : CallEntryValue(p, u)

Step(p) ==
  \/ OpenOptions(p)
  \/ EnterStatus(p)
  \/ EnterUnreserve(p)
  \/ EnterReserve(p)
  \/ EnterDelete(p)
  \/ EnterInsert(p)
  \/ ClearDelete(p)
  \/ CloseUpdate(p)
  \/ EndUpdate(p)
  \/ EndEntries(p)
  \/ EndWinners(p)
  \/ EndTotal(p)
  \/ EndDebit(p)
  \/ EndCredit(p)
  \/ EndClear(p)
  \/ LedgerFail(p)
  \/ Return(p)

\* Commands processed one at a time, on one bet.
Next ==
  \/ \E p \in Procs : Start(p, TRUE, DetailIn)
  \/ \E p \in Procs : Step(p)
  \/ Restart

Spec == Init /\ [][Next]_vars

\* Commands processed one at a time, on one bet, with the stakes of PayoutIn.
NextPayout ==
  \/ \E p \in Procs : Start(p, TRUE, PayoutIn)
  \/ \E p \in Procs : Step(p)
  \/ Restart

SpecPayout == Init /\ [][NextPayout]_vars

\* Commands processed one at a time, over several bets.
NextLife ==
  \/ \E p \in Procs : Start(p, TRUE, LifeIn)
  \/ \E p \in Procs : Step(p)
  \/ Restart

SpecLife == Init /\ [][NextLife]_vars

\* Handlers interleaved at their awaits: a command starts while others are
\* still in flight.
NextAsync ==
  \/ \E p \in Procs : Start(p, FALSE, AsyncIn)
  \/ \E p \in Procs : Step(p)
  \/ Restart

SpecAsync == Init /\ [][NextAsync]_vars

\* Commands processed one at a time, '!bet open' with any message.
NextParse ==
  \/ \E p \in Procs : Start(p, TRUE, ParseIn)
  \/ \E p \in Procs : Step(p)
  \/ Restart

SpecParse == Init /\ [][NextParse]_vars

\* ------------------------------------------------------------------ claims

BetIds == 1..Len(bets)

\* The option rows of bet b whose name is key, compared without case.
OptionsNamed(b, key) ==
  {i \in 1..Len(betOptions) :
     betOptions[i].betId = b /\ betOptions[i].name = toLowerCase(key)}

\* Handler p completes a successful enter() in this step.
EnterCompletes(p) ==
  /\ procs[p].pc = "enter_insert"
  /\ procs'[p].pc = "done"
  /\ procs'[p].result = "ok"

\* C1: with commands processed one at a time, the store never holds more
\* than one entry per (bet, user), users compared without case; and whenever
\* the entries of a (bet, user) change, either they become none, or an enter
\* of that user (under any spelling) on that bet has just completed and they
\* become the one entry with that enter's option and amount.
C1_EnterReplaces ==
  [][\A b \in BetIds : \A u \in LowerUsers :
       LET before == Where(betEntries,
                       LAMBDA e : e.betId = b /\ toLowerCase(e.user) = u)
           after  == Where(betEntries',
                       LAMBDA e : e.betId = b /\ toLowerCase(e.user) = u)
       IN  /\ BagCardinality(after) <= 1
           /\ \/ after = before
              \/ after = EmptyBag
              \/ \E p \in Procs :
                   /\ EnterCompletes(p)
                   /\ procs[p].betId = b
                   /\ toLowerCase(procs[p].user) = u
                   /\ \E i \in OptionsNamed(b, procs[p].option) :
                        after = SetToBag({[betId |-> b, optionId |-> i,
                                           user |-> u,
                                           amount |-> procs[p].florins]})]_vars

\* C1 witness: "Alice" has completed an enter of 0 on option "B" while bob
\* holds an entry too; the store holds her one row, under "alice".
C1_Witness ==
  \E p \in Procs : \E b \in BetIds :
    /\ procs[p].pc = "done" /\ procs[p].cmd = "enter"
    /\ procs[p].result = "ok" /\ procs[p].betId = b
    /\ procs[p].user = "Alice" /\ procs[p].florins = 0
    /\ procs[p].option = "B"
    /\ \E e \in DOMAIN betEntries :
         e.betId = b /\ e.user = "alice" /\ e.amount = 0
    /\ \E e \in DOMAIN betEntries :
         e.betId = b /\ e.user = "bob" /\ e.amount = 7

\* The three cases in which enter() is to fail.
EnterMustFail(b, key, amount) ==
  \/ bets[b] # "open"
  \/ OptionsNamed(b, key) = {}
  \/ amount < 0

\* C2: an enter() whose bet is not open, whose option key names no option
\* of the bet, or whose amount is negative, throws, and leaves the entries
\* and every reservation as they were.
C2_EnterFailsClean ==
  [][\A p \in Procs :
       ( /\ procs[p].pc = "enter_status"
         /\ procs'[p].pc \notin {"enter_status", "idle"}
         /\ EnterMustFail(procs[p].betId, procs[p].option, procs[p].florins) )
       => /\ procs'[p].pc = "done"
          /\ procs'[p].result = "Error"
          /\ betEntries' = betEntries
          /\ reservations' = reservations]_vars

\* C2 witness: an enter() with a negative amount on an open bet and a known
\* option has thrown, while entries and reservations exist.
C2_Witness ==
  \E p \in Procs :
    /\ procs[p].pc = "done" /\ procs[p].cmd = "enter"
    /\ procs[p].result = "Error" /\ procs[p].florins < 0
    /\ bets[procs[p].betId] = "open"
    /\ OptionsNamed(procs[p].betId, procs[p].option) # {}
    /\ betEntries # EmptyBag
    /\ \E u \in LowerUsers : reservations[u] > 0

\* C3: the stored status of a bet only moves open -> closed, open -> ended
\* or closed -> ended, whatever the interleaving of the handlers; an ended
\* bet stays ended.
C3_StatusForward ==
  [][\A b \in BetIds :
       \/ bets'[b] = bets[b]
       \/ <<bets[b], bets'[b]>> \in {<<"open", "closed">>, <<"open", "ended">>,
                                     <<"closed", "ended">>}]_vars

\* The entries of bet b, as rows.
EntryRows(b) == Where(betEntries, LAMBDA e : e.betId = b)

\* C4: once the stored status of a bet is closed or ended, its entries
\* never change again, whatever the interleaving of the handlers.
C4_FrozenOnceClosed ==
  [][\A b \in BetIds :
       bets[b] \in {"closed", "ended"} => EntryRows(b)' = EntryRows(b)]_vars

\* The user and amount of each transaction of a batch.
Deltas(batch) ==
  BagOfAll(LAMBDA t : [username |-> t.username, amount |-> t.amount], batch)

\* The batch applied last.
LastBatch == transactions[Len(transactions)].rows

WinningRows(b, i) == Where(betEntries, LAMBDA e : e.betId = b /\ e.optionId = i)

\* ceil(a * t / w) over the integers, w > 0.
CeilDiv(a, t, w) == (a * t + w - 1) \div w

\* C6: once end() has applied its credit batch, and the winning total is
\* positive, the batch credits each winning entry
\* ceil(amount * pool / winningTotal), and the credits add up to at least
\* the pool and less than the pool plus the number of winners.
C6_CreditsProRata ==
  \A p \in Procs :
    LET won == WinningRows(procs[p].betId, procs[p].optId)
        all == EntryRows(procs[p].betId)
    IN  (procs[p].pc = "end_clear" /\ sum(won) > 0) =>
          /\ Deltas(LastBatch) =
               BagOfAll(LAMBDA e : [username |-> e.user,
                          amount |-> CeilDiv(e.amount, sum(all), sum(won))],
                        won)
          /\ sum(LastBatch) >= sum(all)
          /\ sum(LastBatch) < sum(all) + BagCardinality(won)

\* C7: when the winning total is 0 as end() runs, whether no entry is on
\* the winning option or those on it all have amount 0, the credit batch
\* end() applies is empty.
C7_NoWinnersNoCredit ==
  \A p \in Procs :
    ( /\ procs[p].pc = "end_clear"
      /\ sum(WinningRows(procs[p].betId, procs[p].optId)) = 0 )
    => LastBatch = EmptyBag

\* C8: optionValue and entryValue never throw: optionValue called with a
\* key that matches no option, or an option without entries, returns 0,
\* and entryValue called for a user without an entry returns 0.
C8_ValuesDefaultToZero ==
  \A p \in Procs :
    /\ ( /\ procs[p].pc = "done" /\ procs[p].cmd = "optionValue"
         /\ \A i \in OptionsNamed(procs[p].betId, procs[p].option) :
              WinningRows(procs[p].betId, i) = EmptyBag )
       => (procs[p].result = "ok" /\ procs[p].value = 0)
    /\ ( /\ procs[p].pc = "done" /\ procs[p].cmd = "entryValue"
         /\ \A e \in DOMAIN EntryRows(procs[p].betId) :
              e.user # toLowerCase(procs[p].user) )
       => (procs[p].result = "ok" /\ procs[p].value = 0)

\* C9: the store never holds more than one bet whose status is not ended.
C9_OneLiveBet ==
  Cardinality({b \in BetIds : bets[b] # "ended"}) <= 1

\* The most recent bet that is not ended, 0 when there is none.
MostRecentLive ==
  LET live == {b \in BetIds : bets[b] # "ended"}
  IN  IF live = {} THEN 0 ELSE CHOOSE b \in live : \A c \in live : c <= b

\* C10: a restart binds bot.bet to the most recent bet that is not ended,
\* to none when there is no such bet, and inserts nothing; a bet that was
\* attached and not ended before the restart is the bet attached after it,
\* with the status, options and entries it had.
C10_RecoveryReattaches ==
  [][Restart =>
       /\ botBet' = MostRecentLive
       /\ bets' = bets /\ betOptions' = betOptions /\ betEntries' = betEntries
       /\ (botBet # 0 /\ bets[botBet] # "ended") => botBet' = botBet]_vars

\* Handler p takes up a '!bet open' with no bet attached in this step.
OpenTakenUp(p) ==
  /\ procs[p].pc = "idle"
  /\ procs'[p].cmd = "open"
  /\ botBet = 0

\* C11: '!bet open' with a message that parses to the empty map fails,
\* inserts no bet and attaches none; with a non-empty map it inserts one
\* bet with status open, then exactly one option per key, and attaches the
\* bet.
C11_CreateNeedsOptions ==
  [][\A p \in Procs :
       /\ (OpenTakenUp(p) /\ procs'[p].pc # "parse_loop") =>
            IF parse(procs'[p].str).options = <<>>
              THEN /\ procs'[p].pc = "done" /\ procs'[p].result = "Error"
                   /\ bets' = bets /\ botBet' = 0
              ELSE bets' = Append(bets, "open")
       /\ ( /\ procs[p].pc = "open_options" /\ procs'[p].pc = "done"
            /\ procs[p].options # <<>> ) =>
            /\ procs'[p].result = "ok"
            /\ botBet' = procs[p].betId
            /\ bets' = bets
            /\ Len(betOptions') = Len(betOptions) + Len(procs[p].options)
            /\ \A i \in 1..Len(betOptions) : betOptions'[i] = betOptions[i]
            /\ \A i \in 1..Len(procs[p].options) :
                 /\ betOptions'[Len(betOptions) + i].betId = procs[p].betId
                 /\ betOptions'[Len(betOptions) + i].name =
                      procs[p].options[i].name]_vars

\* Handler p takes up a '!bet end' with an attached bet in this step.
EndTakenUp(p) ==
  /\ procs[p].pc = "idle"
  /\ procs'[p].cmd = "end"
  /\ botBet # 0

\* C12: end() with a key that names no option of the bet throws, and leaves
\* the bet's status, the ledger's transactions and every reservation as
\* they were.
C12_EndUnknownOptionFails ==
  [][\A p \in Procs :
       (EndTakenUp(p) /\ OptionsNamed(botBet, procs'[p].option) = {}) =>
         /\ procs'[p].pc = "done" /\ procs'[p].result = "Error"
         /\ bets' = bets
         /\ transactions' = transactions
         /\ reservations' = reservations]_vars

\* C12 witness: end("z") has thrown on an open bet without an option z,
\* while a user holds an entry and a reservation.
C12_Witness ==
  \E p \in Procs :
    /\ procs[p].pc = "done" /\ procs[p].cmd = "end"
    /\ procs[p].result = "Error" /\ procs[p].option = "z"
    /\ bets[procs[p].betId] = "open"
    /\ OptionsNamed(procs[p].betId, "z") = {}
    /\ EntryRows(procs[p].betId) # EmptyBag
    /\ \E u \in LowerUsers : reservations[u] > 0

\* C13: with commands processed one at a time, when end() returns no user
\* holds a reservation, and an end() changes reservations only once it has
\* applied the debit batch and then the credit batch of its bet.
C13_ClearAfterBatches ==
  [][\A p \in Procs :
       /\ ( /\ procs[p].cmd = "end" /\ procs'[p].pc = "done"
            /\ procs[p].pc # "done" /\ procs'[p].result = "ok" ) =>
            \A u \in LowerUsers : reservations'[u] = 0
       /\ ( /\ procs[p].cmd = "end" /\ procs'[p] # procs[p]
            /\ reservations' # reservations ) =>
            /\ Len(transactions) >= 2
            /\ transactions[Len(transactions) - 1].betId = procs[p].betId
            /\ transactions[Len(transactions) - 1].kind = "debit"
            /\ transactions[Len(transactions)].betId = procs[p].betId
            /\ transactions[Len(transactions)].kind = "credit"
            /\ transactions' = transactions]_vars

\* C13 witness: end() has returned after a debit and a credit, and no user
\* holds a reservation.
C13_Witness ==
  \E p \in Procs :
    /\ procs[p].pc = "done" /\ procs[p].cmd = "end"
    /\ procs[p].result = "ok"
    /\ Len(transactions) = 2
    /\ transactions[1].rows # EmptyBag /\ transactions[2].rows # EmptyBag
    /\ \A u \in LowerUsers : reservations[u] = 0

\* The keys and descriptions of the well-formed option strings considered.
OptionKeys == {<<"a">>, <<"a", "a">>}
Descriptions == {<<"a">>, <<"a", "a">>}

\* The lists of one or two options, with different keys.
OptionLists ==
  {items \in UNION {[1..n -> [key : OptionKeys, description : Descriptions]] :
                      n \in 1..2} :
     \A i, j \in 1..Len(items) : items[i].key = items[j].key => i = j}

\* "key) description key) description ..."
RECURSIVE Rendered(_)
Rendered(items) ==
  IF Len(items) = 0 THEN <<>>
  ELSE Head(items).key \o <<")", " ">> \o Head(items).description
       \o (IF Len(items) = 1 THEN <<>> ELSE <<" ">> \o Rendered(Tail(items)))

\* The mapping of a list of options.
MappingOf(items) ==
  {[name |-> Join(items[i].key), description |-> Join(items[i].description)] :
     i \in 1..Len(items)}

\* A message holds no key token: no letter is followed by ")".
NoKeyToken(str) ==
  \A i \in 2..Len(str) : ~(str[i] = ")" /\ str[i - 1] \in Letters)

C18_ParseTerminates ==
  \A p \in Procs : procs[p].pc # "parse_loop"

\* Handler p is in end() past its status update, or has left end() from
\* there: by returning, or by a ledger call that failed.
PastEndUpdate(p) ==
  /\ procs[p].cmd = "end"
  /\ \/ procs[p].pc \in {"end_entries", "end_winners", "end_total",
                         "end_debit", "end_credit", "end_clear"}
     \/ procs[p].pc = "done" /\ procs[p].optId # Undefined

\* C15: with commands processed one at a time, the status of the bet is
\* ended from before end() reads the entries or calls the ledger, also when
\* a ledger call of end() has failed; every batch in the ledger's log is of
\* a bet that is ended; and a restart never attaches an ended bet.
C15_EndedBeforePayout ==
  [][/\ \A p \in Procs : PastEndUpdate(p)' => bets'[procs'[p].betId] = "ended"
     /\ \A i \in 1..Len(transactions') :
          bets'[transactions'[i].betId] = "ended"
     /\ Restart => (botBet' = 0 \/ bets'[botBet'] # "ended")]_vars

\* C15 witness: the credit batch of end() has failed after the debit batch
\* was applied; the bet is ended and not attached.
C15_Witness ==
  \E p \in Procs :
    /\ procs[p].pc = "done" /\ procs[p].cmd = "end"
    /\ procs[p].result = "Error" /\ procs[p].optId # Undefined
    /\ Len(transactions) = 1 /\ transactions[1].rows # EmptyBag
    /\ bets[procs[p].betId] = "ended"
    /\ botBet = 0

\* No enter() is in progress.
NoEnterInProgress ==
  \A p \in Procs :
    procs[p].pc \notin {"enter_status", "enter_unreserve", "enter_reserve",
                        "enter_delete", "enter_insert"}

\* C16: whenever no enter is in progress and the current bet is not ended,
\* each user's reservation is the amount of the user's entry in the bet, or
\* zero for a user without an entry.
C16_ReservationsMatchEntries ==
  (NoEnterInProgress /\ botBet # 0 /\ bets[botBet] # "ended") =>
    \A u \in LowerUsers :
      LET rows == Where(EntryRows(botBet), LAMBDA e : toLowerCase(e.user) = u)
      IN  IF rows = EmptyBag THEN reservations[u] = 0
          ELSE \A e \in DOMAIN rows : reservations[u] = e.amount

\* C17: under any interleaving of commands and restarts, the ledger's log
\* never holds two debit batches or two credit batches of one bet.
C17_SettledOnce ==
  \A i, j \in 1..Len(transactions) :
    ( /\ transactions[i].betId = transactions[j].betId
      /\ transactions[i].kind = transactions[j].kind ) => i = j

\* C19: a '!bet end' with a key that names no option of the attached bet
\* fails, and leaves the bet attached with its status.
C19_EndUnknownKeepsBet ==
  [][\A p \in Procs :
       (EndTakenUp(p) /\ OptionsNamed(botBet, procs'[p].option) = {}) =>
         /\ procs'[p].result = "Error"
         /\ botBet' = botBet
         /\ bets' = bets]_vars

\* C20: after '!bet stop' no user holds a reservation, no transaction was
\* applied, and the bet that was attached is one a restart will not attach.
C20_StopRefunds ==
  [][\A p \in Procs :
       (procs[p].pc = "idle" /\ procs'[p].cmd = "stop" /\ botBet # 0) =>
         /\ \A u \in LowerUsers : reservations'[u] = 0
         /\ transactions' = transactions
         /\ botBet' = 0
         /\ bets'[botBet] = "ended"]_vars

====
